---------------------------- MODULE Spec2Model ----------------------------
(***************************************************************************)
(* Model of the Suez water integration: SuezWaterCoordinator               *)
(* (coordinator.py) and the sensors that read it (sensor.py).              *)
(*                                                                         *)
(* The coroutines _async_setup and _async_update_data are modelled one     *)
(* step per suspension point (each await of a remote call).  The refresh   *)
(* engine the coordinator inherits (DataUpdateCoordinator: who starts a    *)
(* cycle, who waits for it, what is published) is not part of the two      *)
(* source files; it is modelled from the specification text.               *)
(***************************************************************************)
EXTENDS Integers, Sequences, FiniteSets, TLC

(***************************************************************************)
(* Bounds of the model.                                                    *)
(***************************************************************************)
\* the clock advances in steps of TimeStep and stops at MaxTime
TimeStep == 30
MaxTime == 60
\* number of distinct consumption records the provider can answer
MaxDayData == 2
\* number of distinct answers the legacy synchronous client can give
MaxClientData == 2

(***************************************************************************)
(* Program constants.                                                      *)
(***************************************************************************)
\* asyncio.timeout(20) in _async_setup
SETUP_TIMEOUT == 20
\* asyncio.timeout(60) in _async_update_data
UPDATE_TIMEOUT == 60

(***************************************************************************)
(* Values.                                                                 *)
(***************************************************************************)
None == [tag |-> "None"]

\* pysuez DayDataResult: the fields the sensors read
DayDataResult == { [tag |-> "DayDataResult", day_consumption |-> 100 + 20 * d, date |-> d]
                     : d \in 1..MaxDayData }

\* pysuez ConsumptionIndexResult: index lives under .content.index
ConsumptionIndexResult == { [tag |-> "ConsumptionIndexResult", content |-> [index |-> 4821]] }

\* pysuez PriceResult: only .price is kept by the coordinator
PriceResult == { [tag |-> "PriceResult", price |-> 3] }

\* pysuez AlertResult, as the collection of alerts that are raised (may be empty)
AlertResult == { [tag |-> "AlertResult", raised |-> s] : s \in SUBSET {"leak"} }

\* a Python float held in an Optional[float] field
Float(x) == [tag |-> "float", value |-> x]

\* a Python bool
Bool(b) == [tag |-> "bool", value |-> b]

\* the answer of a remote operation
Answer(op, v) == [op |-> op, value |-> v]

\* a Python str
Str(x) == [tag |-> "str", value |-> x]

\* a Python dict with string keys, as the function from its keys to its values
Dict(d) == [tag |-> "dict", items |-> d]

\* the dict with no key
EmptyDict == Dict(<< >>)

\* no reader has just run
NoView == [tag |-> "NoView"]

\* those who can ask for a refresh: the scheduler's timer and the observers
Callers == {"timer", "sensor1", "sensor2"}

\* outcomes of a coroutine: nothing yet, a returned value, or a raised exception
NoResult == [type |-> "none", cause |-> "None", data |-> None]
Returned(d) == [type |-> "return", cause |-> "None", data |-> d]
Raised(exc, cause) == [type |-> exc, cause |-> cause, data |-> None]

VARIABLES
    state,      \* lifecycle: "Uninitialized", "Ready", "Refreshing", "Failed"
    pc,         \* the await the running coroutine is suspended at, or "idle"
    _last_day,  \* SuezWaterCoordinator._last_day
    index,      \* SuezWaterCoordinator.index
    _price,     \* SuezWaterCoordinator._price
    alerts,     \* SuezWaterCoordinator.alerts
    data,       \* what the last successful cycle returned and the engine published
    now,        \* the clock (datetime.now())
    elapsed,    \* time spent inside the running asyncio.timeout block
    awaiting,   \* callers waiting for the running cycle
    received,   \* what each caller of the last cycle got back
    running,    \* number of refresh cycles in flight
    exc,        \* the exception raised inside the last coroutine's body, or "None"
    result,     \* how the last _async_setup / _async_update_data ended
    pre,        \* the readable fields when the current/last cycle started
    calls,      \* remote operations invoked by the current/last coroutine, in order
    returned,   \* the calls that answered, each with its answer, in order
    observed,   \* what the accessors and sensor properties returned, if the last
                \* step was a reader's
    client,                         \* SuezAggregatedSensor.client (state, attributes)
    _attr_available,                \* SuezAggregatedSensor._attr_available
    _attr_native_value,             \* SuezAggregatedSensor._attr_native_value
    _attr_attribution,              \* SuezAggregatedSensor._attr_attribution
    _attr_extra_state_attributes,   \* SuezAggregatedSensor._attr_extra_state_attributes
    updated,    \* how the last SuezAggregatedSensor.update() went
    last_ok     \* native value and attributes after the last successful update()

\* the coordinator and its engine
coordinator == << state, pc, _last_day, index, _price, alerts, data, now, elapsed,
                  awaiting, received, running, exc, result, pre, calls, returned >>

\* the legacy aggregated sensor
aggregated == << client, _attr_available, _attr_native_value, _attr_attribution,
                 _attr_extra_state_attributes, updated, last_ok >>

vars == << coordinator, observed, aggregated >>

fields == << _last_day, index, _price, alerts >>

\* the four readable fields of the coordinator (properties and attributes)
Snapshot == [ consumption_last_day |-> _last_day,
              index |-> index,
              price |-> _price,
              alerts |-> alerts ]

Min(a, b) == IF a < b THEN a ELSE b

Init ==
    /\ state = "Uninitialized"
    /\ pc = "idle"
    /\ _last_day = None
    /\ index = None
    /\ _price = None
    /\ alerts = None
    /\ data = None
    /\ now = 0
    /\ elapsed = 0
    /\ awaiting = {}
    /\ received = [c \in Callers |-> NoResult]
    /\ running = 0
    /\ exc = "None"
    /\ result = NoResult
    /\ pre = Snapshot
    /\ calls = << >>
    /\ returned = << >>
    /\ observed = NoView
    /\ client = [state |-> None, attributes |-> EmptyDict]
    /\ _attr_available = TRUE
    /\ _attr_native_value = None
    /\ _attr_attribution = None
    /\ _attr_extra_state_attributes = EmptyDict
    /\ updated = "none"
    /\ last_ok = [native_value |-> None, extra_state_attributes |-> EmptyDict]


(***************************************************************************)
(* Time and asyncio.timeout.                                               *)
(***************************************************************************)
\* the bound of the asyncio.timeout block the running coroutine is inside
TimeoutOf(st) == IF st = "Uninitialized" THEN SETUP_TIMEOUT ELSE UPDATE_TIMEOUT

\* the awaited remote call may still answer: the deadline has not passed
InTime == elapsed < TimeoutOf(state)

\* the deadline of the enclosing asyncio.timeout block has passed: the await is
\* cancelled and the block raises TimeoutError
Expired == elapsed >= TimeoutOf(state)

\* Time passes.  Code between two awaits takes no time; a pending await cannot
\* outlive its deadline without the timeout firing.
Tick ==
    /\ IF pc = "idle" THEN now < MaxTime ELSE InTime
    /\ now' = Min(now + TimeStep, MaxTime)
    /\ elapsed' = IF pc = "idle" THEN elapsed ELSE elapsed + TimeStep
    /\ UNCHANGED << state, pc, fields, data, awaiting, received, running, exc,
                    result, pre, calls, returned >>

(***************************************************************************)
(* Setup.                                                                  *)
(***************************************************************************)
\* The engine's view of how _async_setup ended: Ready after a normal return,
\* Failed (terminal) after ConfigEntryError, still Uninitialized otherwise.
SetupEnds(res) ==
    /\ state' = CASE res.type = "return" -> "Ready"
                  [] res.type = "ConfigEntryError" -> "Failed"
                  [] OTHER -> "Uninitialized"
    /\ pc' = "idle"
    /\ result' = res
    /\ exc' = IF res.type = "return" THEN "None" ELSE res.type
    /\ UNCHANGED << fields, data, now, elapsed, awaiting, received, running, pre >>

\* setup(): the engine runs _async_setup once before the first cycle (and again
\* after a transient failure)
setup ==
    /\ state = "Uninitialized"
    /\ pc = "idle"
    /\ pc' = "check_credentials"
    /\ elapsed' = 0
    /\ calls' = << "check_credentials" >>
    /\ returned' = << >>
    /\ result' = NoResult
    /\ exc' = "None"
    /\ UNCHANGED << state, fields, data, now, awaiting, received, running, pre >>

\* await close_session(): the second await of _async_setup
await_close_session ==
    /\ pc' = "close_session"
    /\ calls' = Append(calls, "close_session")
    /\ UNCHANGED << state, fields, data, now, elapsed, awaiting, received, running,
                    exc, result, pre >>

\* a setup that does not look at what check_credentials answered
check_credentials_ignored(ok) ==
    await_close_session

\* if not await check_credentials(): raise ConfigEntryError
check_credentials_answers(ok) ==
    IF ~ ok
      THEN /\ SetupEnds(Raised("ConfigEntryError", "None"))
           /\ UNCHANGED calls
      ELSE await_close_session

\* SuezWaterCoordinator._async_setup, from the await it is suspended at
_async_setup ==
    /\ state = "Uninitialized"
    /\ \/ \E ok \in BOOLEAN :
            \* await check_credentials() answers
            /\ pc = "check_credentials"
            /\ InTime
            /\ returned' = Append(returned, Answer(pc, Bool(ok)))
            /\ check_credentials_answers(ok)
       \/ \* await close_session() answers: the block and the coroutine end
          /\ pc = "close_session"
          /\ InTime
          /\ returned' = Append(returned, Answer(pc, None))
          /\ SetupEnds(Returned(None))
          /\ UNCHANGED calls
       \/ \* the awaited call raises PySuezError: nothing catches it
          /\ pc \in {"check_credentials", "close_session"}
          /\ InTime
          /\ SetupEnds(Raised("PySuezError", "None"))
          /\ UNCHANGED << calls, returned >>
       \/ \* asyncio.timeout(20) expires: nothing catches the TimeoutError
          /\ pc \in {"check_credentials", "close_session"}
          /\ Expired
          /\ SetupEnds(Raised("TimeoutError", "None"))
          /\ UNCHANGED << calls, returned >>

(***************************************************************************)
(* The refresh engine: who starts a cycle, who waits for it, how it ends.  *)
(***************************************************************************)
\* a cycle that asks for the price before the index
UpdateSteps_price_first ==
    << "fetch_yesterday_data", "get_price", "get_consumption_index", "get_alerts",
       "close_session" >>

\* the remote operations of one cycle, in the order _async_update_data awaits them
UpdateSteps ==
    << "fetch_yesterday_data", "get_consumption_index", "get_price", "get_alerts",
       "close_session" >>

\* position of an operation in the cycle
StepOf(op) == CHOOSE i \in 1..Len(UpdateSteps) : UpdateSteps[i] = op

\* A refresh cycle starts: _async_update_data is entered and runs to its first
\* await.
StartCycle(c) ==
    /\ state' = "Refreshing"
    /\ running' = running + 1
    /\ pc' = UpdateSteps[1]
    /\ elapsed' = 0
    /\ awaiting' = {c}
    /\ received' = [x \in Callers |-> NoResult]
    /\ exc' = "None"
    /\ result' = NoResult
    /\ pre' = Snapshot
    /\ calls' = << UpdateSteps[1] >>
    /\ returned' = << >>
    /\ UNCHANGED << fields, data, now >>

\* requestRefresh(): starts a cycle when none is running, joins the running one
\* otherwise; the caller stays suspended until that cycle ends.
requestRefresh(c) ==
    /\ c \notin awaiting
    /\ \/ /\ state = "Ready"
          /\ StartCycle(c)
       \/ /\ state = "Refreshing"
          /\ awaiting' = awaiting \cup {c}
          /\ UNCHANGED << state, pc, fields, data, now, elapsed, received, running,
                          exc, result, pre, calls, returned >>

\* timerTick(): the scheduler's periodic request (update_interval)
timerTick == requestRefresh("timer")

\* a sensor that refreshes the coordinator itself instead of requesting a refresh
async_update_refreshes(sensor) ==
    /\ sensor \notin awaiting
    /\ state \in {"Ready", "Refreshing"}
    /\ StartCycle(sensor)

\* SuezSensorEntity.async_update: a sensor asks the coordinator for a refresh
async_update(sensor) == requestRefresh(sensor)

\* The cycle ends with res: every waiting caller gets res, a returned value is
\* published, and the coordinator is Ready again.
CycleEnds(res) ==
    /\ state' = "Ready"
    /\ running' = running - 1
    /\ pc' = "idle"
    /\ result' = res
    /\ received' = [c \in Callers |-> IF c \in awaiting THEN res ELSE received[c]]
    /\ awaiting' = {}
    /\ data' = IF res.type = "return" THEN res.data ELSE data
    /\ UNCHANGED << now, elapsed, pre >>

(***************************************************************************)
(* SuezWaterCoordinator: the refresh cycle.                                *)
(***************************************************************************)
\* _fetch_last_day_consumption_data, after fetch_yesterday_data answered last_day
_fetch_last_day_consumption_data(last_day) ==
    _last_day' = last_day

\* an index fetch that keeps the old index when the provider has none
_fetch_consumption_index_keeps(idx) ==
    index' = IF idx = None THEN index ELSE idx

\* _fetch_consumption_index, after get_consumption_index answered idx
_fetch_consumption_index(idx) ==
    index' = IF idx = None THEN None ELSE idx

\* a price fetch that keeps the old price when the provider has none
_fetch_price_keeps(price) ==
    _price' = IF price = None THEN _price ELSE Float(price.price)

\* _fetch_price, after get_price answered price
_fetch_price(price) ==
    _price' = IF price = None THEN None ELSE Float(price.price)

\* an alerts fetch that forgets to store what it got
_fetch_alerts_dropped(a) ==
    alerts' = alerts

\* _fetch_alerts, after get_alerts answered a
_fetch_alerts(a) ==
    alerts' = a

\* a cycle without the except clause
except_nothing(err) ==
    Raised(err, "None")

\* except PySuezError as err: raise UpdateFailed(...) from err.  Any other
\* exception leaves _async_update_data as it is.
except_PySuezError(err) ==
    IF err = "PySuezError"
      THEN Raised("UpdateFailed", err)
      ELSE Raised(err, "None")

\* the awaited operation answered v: on to the next await of the cycle
Proceed(v) ==
    /\ returned' = Append(returned, Answer(pc, v))
    /\ pc' = UpdateSteps[StepOf(pc) + 1]
    /\ calls' = Append(calls, UpdateSteps[StepOf(pc) + 1])
    /\ UNCHANGED << state, data, now, elapsed, awaiting, received, running, exc,
                    result, pre >>

\* a cycle that starts its wait again when the deadline passes
timeout_rearms ==
    /\ Expired
    /\ elapsed' = 0
    /\ UNCHANGED << state, pc, fields, data, now, awaiting, received, running, exc,
                    result, pre, calls, returned >>

\* async with asyncio.timeout(60): the deadline passes while an operation is
\* awaited; the await is cancelled and the block raises TimeoutError
timeout_expires ==
    /\ Expired
    /\ exc' = "TimeoutError"
    /\ CycleEnds(except_PySuezError("TimeoutError"))
    /\ UNCHANGED << fields, calls, returned >>

\* a cycle that closes the session when an operation fails, too
operation_raises_closes ==
    /\ InTime
    /\ exc' = "PySuezError"
    /\ calls' = Append(calls, "close_session")
    /\ CycleEnds(except_PySuezError("PySuezError"))
    /\ UNCHANGED << fields, returned >>

\* a cycle that asks once more when an operation fails for the first time
operation_raises_retries ==
    /\ InTime
    /\ IF Len(calls) = Len(returned) + 1
         THEN /\ calls' = Append(calls, pc)
              /\ UNCHANGED << state, pc, fields, data, now, elapsed, awaiting,
                              received, running, exc, result, pre, returned >>
         ELSE /\ exc' = "PySuezError"
              /\ CycleEnds(except_PySuezError("PySuezError"))
              /\ UNCHANGED << fields, calls, returned >>

\* the awaited operation raises PySuezError: the rest of the try block is
\* skipped and the except clause ends the cycle
operation_raises ==
    /\ InTime
    /\ exc' = "PySuezError"
    /\ CycleEnds(except_PySuezError("PySuezError"))
    /\ UNCHANGED << fields, calls, returned >>

\* SuezWaterCoordinator._async_update_data, from the await it is suspended at
_async_update_data ==
    /\ state = "Refreshing"
    /\ \/ \E r \in DayDataResult \cup {None} :
            /\ pc = "fetch_yesterday_data"
            /\ InTime
            /\ _fetch_last_day_consumption_data(r)
            /\ Proceed(r)
            /\ UNCHANGED << index, _price, alerts >>
       \/ \E r \in ConsumptionIndexResult \cup {None} :
            /\ pc = "get_consumption_index"
            /\ InTime
            /\ _fetch_consumption_index(r)
            /\ Proceed(r)
            /\ UNCHANGED << _last_day, _price, alerts >>
       \/ \E r \in PriceResult \cup {None} :
            /\ pc = "get_price"
            /\ InTime
            /\ _fetch_price(r)
            /\ Proceed(r)
            /\ UNCHANGED << _last_day, index, alerts >>
       \/ \E r \in AlertResult :
            /\ pc = "get_alerts"
            /\ InTime
            /\ _fetch_alerts(r)
            /\ Proceed(r)
            /\ UNCHANGED << _last_day, index, _price >>
       \/ \* close_session() answered: return {"update": datetime.now()}
          /\ pc = "close_session"
          /\ InTime
          /\ returned' = Append(returned, Answer(pc, None))
          /\ exc' = "None"
          /\ CycleEnds(Returned([update |-> now]))
          /\ UNCHANGED << fields, calls >>
       \/ operation_raises
       \/ timeout_expires

(***************************************************************************)
(* Readers: the coordinator's accessors and the sensors' properties.       *)
(***************************************************************************)
\* what Python raises for an attribute the object does not have
AttributeError == [tag |-> "AttributeError"]

\* obj.name
GetAttr(obj, name) ==
    IF name \in DOMAIN obj
      THEN [tag |-> "ok", value |-> obj[name]]
      ELSE AttributeError

\* SuezWaterCoordinator.consumption_last_day
consumption_last_day == _last_day

\* SuezWaterCoordinator.price
price == _price

\* SuezWaterCoordinator.get_attribution: the data API's static string
get_attribution == Str("attribution")

\* SuezLastDayConsumptionSensor.native_value
SuezLastDayConsumptionSensor_native_value ==
    IF consumption_last_day = None
      THEN None
      ELSE LET consumption == GetAttr(consumption_last_day, "day_consumption")
           IN  IF consumption.tag = "ok" THEN Float(consumption.value) ELSE AttributeError

\* SuezLastDayConsumptionSensor.extra_state_attributes
SuezLastDayConsumptionSensor_extra_state_attributes ==
    IF consumption_last_day = None
      THEN None
      ELSE LET date == GetAttr(consumption_last_day, "date")
           IN  IF date.tag = "ok" THEN Dict([date |-> date.value]) ELSE AttributeError

\* SuezPriceSensor.native_value
SuezPriceSensor_native_value == price

\* an index sensor that does not look whether there is an index
SuezForeverTotalIncreasingSensor_native_value_unchecked ==
    LET content == GetAttr(index, "content")
    IN  IF content.tag # "ok"
          THEN AttributeError
          ELSE LET idx == GetAttr(content.value, "index")
               IN  IF idx.tag = "ok" THEN Float(idx.value) ELSE AttributeError

\* SuezForeverTotalIncreasingSensor.native_value
SuezForeverTotalIncreasingSensor_native_value ==
    IF index = None
      THEN None
      ELSE LET content == GetAttr(index, "content")
           IN  IF content.tag # "ok"
                 THEN AttributeError
                 ELSE LET idx == GetAttr(content.value, "index")
                      IN  IF idx.tag = "ok" THEN Float(idx.value) ELSE AttributeError

\* everything a reader can get: the accessors of the coordinator and the
\* properties of the three sensors
Views ==
    [ tag |-> "View",
      consumption_last_day |-> consumption_last_day,
      price |-> price,
      index |-> index,
      alerts |-> alerts,
      attribution |-> get_attribution,
      water_usage_last_day |-> SuezLastDayConsumptionSensor_native_value,
      water_usage_last_day_attributes |-> SuezLastDayConsumptionSensor_extra_state_attributes,
      price_sensor |-> SuezPriceSensor_native_value,
      water_usage_forever_total |-> SuezForeverTotalIncreasingSensor_native_value ]

\* a reader whose property asks the coordinator for a refresh of its own
read_refreshes ==
    /\ observed' = Views
    /\ UNCHANGED aggregated
    /\ IF state = "Ready"
         THEN StartCycle("sensor1")
         ELSE UNCHANGED coordinator

\* A reader runs: at any point between two steps of the coordinator it calls
\* the accessors and the sensors' properties.  None of them assigns anything.
read ==
    /\ observed' = Views
    /\ UNCHANGED << coordinator, aggregated >>

(***************************************************************************)
(* SuezAggregatedSensor: the legacy sensor with its own synchronous client. *)
(***************************************************************************)
\* what SuezClient holds after an update(): its state (yesterday's volume) and
\* its attributes
ClientData ==
    { [ state |-> Float(200 + k),
        attributes |-> Dict([ attribution |-> Str("attribution"),
                              thisMonthConsumption |-> Dict([day1 |-> k, day2 |-> k + 1]),
                              previousMonthConsumption |-> Dict([day1 |-> k + 2]),
                              highestMonthlyConsumption |-> 900 + k,
                              lastYearOverAll |-> 5000 + k,
                              thisYearOverAll |-> 100 + k,
                              history |-> Dict([month1 |-> 300 + k]) ]) ]
        : k \in 1..MaxClientData }

\* target = {}; for item in source: target[item] = source[item]
CopyItems(source) ==
    Dict([item \in DOMAIN source.items |-> source.items[item]])

\* d[key] = value
SetItem(d, key, value) ==
    Dict([k \in DOMAIN d.items \cup {key} |-> IF k = key THEN value ELSE d.items[k]])

\* the try block of _fetch_data after client.update() returned
fetched_attributes(attributes, extra) ==
    LET a1 == SetItem(extra, "this_month_consumption",
                      CopyItems(attributes.items.thisMonthConsumption))
        a2 == SetItem(a1, "previous_month_consumption",
                      CopyItems(attributes.items.previousMonthConsumption))
        a3 == SetItem(a2, "highest_monthly_consumption",
                      attributes.items.highestMonthlyConsumption)
        a4 == SetItem(a3, "last_year_overall", attributes.items.lastYearOverAll)
        a5 == SetItem(a4, "this_year_overall", attributes.items.thisYearOverAll)
        a6 == SetItem(a5, "history", CopyItems(attributes.items.history))
    IN  SetItem(a6, "deprecated", "This sensor is deprecated")

\* a _fetch_data that shows no value once the client failed
_fetch_data_clears(ok, c) ==
    /\ client' = c
    /\ IF ok
         THEN /\ _attr_native_value' = c.state
              /\ _attr_available' = TRUE
              /\ _attr_attribution' = c.attributes.items.attribution
              /\ _attr_extra_state_attributes' =
                    fetched_attributes(c.attributes, _attr_extra_state_attributes)
         ELSE /\ _attr_available' = FALSE
              /\ _attr_native_value' = None
              /\ UNCHANGED << _attr_attribution, _attr_extra_state_attributes >>

\* SuezAggregatedSensor._fetch_data: client.update() returned (ok) or raised
\* PySuezError, and left the client holding c
_fetch_data(ok, c) ==
    /\ client' = c
    /\ IF ok
         THEN /\ _attr_native_value' = c.state
              /\ _attr_available' = TRUE
              /\ _attr_attribution' = c.attributes.items.attribution
              /\ _attr_extra_state_attributes' =
                    fetched_attributes(c.attributes, _attr_extra_state_attributes)
         ELSE /\ _attr_available' = FALSE
              /\ UNCHANGED << _attr_native_value, _attr_attribution,
                              _attr_extra_state_attributes >>

\* SuezAggregatedSensor.update.  A client.update() that raises may have changed
\* the client before it did.
update ==
    /\ \E ok \in BOOLEAN :
         \E c \in IF ok THEN ClientData ELSE ClientData \cup {client} :
            /\ _fetch_data(ok, c)
            /\ updated' = IF ok THEN "ok" ELSE "PySuezError"
            /\ last_ok' = IF ok
                             THEN [ native_value |-> _attr_native_value',
                                    extra_state_attributes |-> _attr_extra_state_attributes' ]
                             ELSE last_ok
    /\ observed' = NoView
    /\ UNCHANGED coordinator

(***************************************************************************)
(* Specifications.                                                         *)
(***************************************************************************)
\* a step of the coordinator: what a reader saw before it is gone, and the
\* aggregated sensor is not involved
Coordinator(A) ==
    /\ A
    /\ observed' = NoView
    /\ UNCHANGED aggregated

Next ==
    \/ Coordinator(Tick)
    \/ Coordinator(setup)
    \/ Coordinator(_async_setup)
    \/ Coordinator(timerTick)
    \/ \E s \in Callers \ {"timer"} : Coordinator(async_update(s))
    \/ Coordinator(_async_update_data)

\* the coordinator alone
Spec == Init /\ [][Next]_vars

\* the coordinator and its readers
ViewSpec == Init /\ [][Next \/ read]_vars

\* the aggregated sensor next to the coordinator's setup and its cycles started
\* by the timer; the sensor does not read the clock, which stands still here
LegacyNext ==
    \/ update
    \/ Coordinator(setup)
    \/ Coordinator(_async_setup)
    \/ Coordinator(timerTick)
    \/ Coordinator(_async_update_data)

LegacySpec == Init /\ [][LegacyNext]_vars

\* The event loop keeps running: time passes while a call is pending, and a
\* coroutine whose timeout has expired is resumed.
FairSpec ==
    /\ Spec
    /\ WF_vars(Coordinator(Tick))
    /\ WF_vars(Coordinator(Expired /\ _async_update_data))

(***************************************************************************)
(* Vocabulary of the properties.                                           *)
(***************************************************************************)
\* the last coroutine that ran was a refresh cycle, and it has ended
CycleEnded ==
    /\ state = "Ready"
    /\ Len(calls) > 0
    /\ calls[1] # "check_credentials"

\* the last coroutine that ran was _async_setup, and it has ended
SetupEnded ==
    /\ pc = "idle"
    /\ Len(calls) > 0
    /\ calls[1] = "check_credentials"

\* the operations of a sequence of answers
OpsOf(answers) == [i \in 1..Len(answers) |-> answers[i].op]

\* what operation op answered in the current/last coroutine
AnswerOf(op) == returned[CHOOSE i \in 1..Len(returned) : returned[i].op = op].value

Answered(op) == \E i \in 1..Len(returned) : returned[i].op = op

\* the order of the remote fetches the specification gives
FixedOrder ==
    << "fetch_yesterday_data", "get_consumption_index", "get_price", "get_alerts",
       "close_session" >>

IsPrefix(p, q) == Len(p) <= Len(q) /\ \A i \in 1..Len(p) : p[i] = q[i]

(***************************************************************************)
(* C1                                                                      *)
(***************************************************************************)
\* C1: after a refresh cycle in which one of the four fetch steps failed with a
\* provider communication error, the four readable fields equal their values
\* from before the cycle, and the waiting callers got the failure.
C1_FailedCycleLeavesSnapshotUntouched ==
    (CycleEnded /\ exc = "PySuezError" /\ Len(calls) <= 4)
        => /\ Snapshot = pre
           /\ result.type = "UpdateFailed"
           /\ \E c \in Callers : received[c] = result

(***************************************************************************)
(* C2                                                                      *)
(***************************************************************************)
\* C2: in every reachable state at most one refresh cycle is running; a request
\* or tick that arrives while a cycle is running does not start a second one.
C2_AtMostOneCycle ==
    /\ running \in {0, 1}
    /\ running = 1 <=> state = "Refreshing"

\* a sensor's request and the timer's tick both arrived during a running cycle
C2_Witness ==
    /\ state = "Refreshing"
    /\ running = 1
    /\ awaiting = Callers
    /\ Len(calls) >= 3

(***************************************************************************)
(* C3                                                                      *)
(***************************************************************************)
C3_JoinStep ==
    state = "Refreshing" =>
        \/ /\ state' = "Refreshing"
           /\ awaiting \subseteq awaiting'
           /\ IsPrefix(calls, calls')
           /\ received' = received
        \/ /\ state' = "Ready"
           /\ calls' = calls
           /\ \A c \in Callers :
                received'[c] = IF c \in awaiting THEN result' ELSE NoResult

C3_State ==
    /\ \A i, j \in 1..Len(calls) : calls[i] = calls[j] => i = j
    /\ state = "Refreshing" =>
          /\ awaiting # {}
          /\ \A c \in Callers : received[c] = NoResult
    /\ CycleEnded =>
          /\ awaiting = {}
          /\ \A c \in Callers : received[c] \in {NoResult, result}
          /\ \E c \in Callers : received[c] = result

\* C3: requests issued while a cycle is running join it: no further set of
\* fetches is started (each remote operation is invoked once in the cycle), no
\* caller returns before the cycle ends, and at its end every waiting caller
\* receives the cycle's one outcome.
C3_CoalescedRequestsShareOneCycle == [] C3_State /\ [][C3_JoinStep]_vars

\* three callers joined one cycle and all got the same failure
C3_Witness ==
    /\ CycleEnded
    /\ result.type = "UpdateFailed"
    /\ \A c \in Callers : received[c] = result
    /\ Len(calls) = 3

(***************************************************************************)
(* C4                                                                      *)
(***************************************************************************)
\* C4: readers never see a torn snapshot: while a cycle is running (a reader can
\* run at each of its awaits) the four fields are still those of before the
\* cycle; they are replaced together when the cycle publishes.
C4_NoTornSnapshot ==
    state = "Refreshing" => Snapshot = pre

(***************************************************************************)
(* C5                                                                      *)
(***************************************************************************)
C5_State ==
    (CycleEnded /\ result.type = "return") =>
        /\ OpsOf(returned) = FixedOrder
        /\ _last_day = AnswerOf("fetch_yesterday_data")
        /\ index = AnswerOf("get_consumption_index")
        /\ _price = IF AnswerOf("get_price") = None
                      THEN None
                      ELSE Float(AnswerOf("get_price").price)
        /\ alerts = AnswerOf("get_alerts")
        /\ data = result.data
        /\ data.update \in 0..now

C5_Step ==
    (state = "Refreshing" /\ state' = "Ready" /\ result'.type = "return")
        => data' = [update |-> now']

\* C5: after a cycle that completed successfully every field holds what this
\* cycle's own fetch answered, whatever it held before: the consumption record,
\* the index (absent for None), the numeric price component (absent for None),
\* the alerts as they came; the published data carries the time of completion.
C5_SuccessfulCycleReflectsItsFetches == [] C5_State /\ [][C5_Step]_vars

\* a successful cycle that replaced a record by another one, populated fields by
\* absent ones, and stored an empty alert collection
C5_Witness ==
    /\ CycleEnded
    /\ result.type = "return"
    /\ pre.consumption_last_day \in DayDataResult
    /\ _last_day \in DayDataResult \ {pre.consumption_last_day}
    /\ pre.index # None /\ index = None
    /\ pre.price = None /\ _price = Float(3)
    /\ alerts = [tag |-> "AlertResult", raised |-> {}]
    /\ data.update > 0

(***************************************************************************)
(* C6                                                                      *)
(***************************************************************************)
\* C6: a timeout is a communication failure: a cycle whose 60-unit bound expired
\* ends with the update-failed error a failing fetch produces, and a setup whose
\* 20-unit bound expired ends with that communication failure too, not with a
\* configuration error or an unclassified one.
C6_TimeoutIsCommunicationFailure ==
    /\ (CycleEnded /\ exc = "TimeoutError") => result.type = "UpdateFailed"
    /\ (SetupEnded /\ exc = "TimeoutError") => result.type = "UpdateFailed"

(***************************************************************************)
(* C7                                                                      *)
(***************************************************************************)
\* the credential check of the last setup answered "invalid"
InvalidCredentials ==
    /\ Answered("check_credentials")
    /\ AnswerOf("check_credentials") = Bool(FALSE)

C7_State ==
    InvalidCredentials =>
        /\ state = "Failed"
        /\ pc = "idle"
        /\ result = Raised("ConfigEntryError", "None")
        /\ calls = << "check_credentials" >>
        /\ running = 0
        /\ awaiting = {}
        /\ data = None
        /\ \A f \in DOMAIN Snapshot : Snapshot[f] = None

C7_Step ==
    state = "Failed" => (state' = "Failed" /\ pc' = pc /\ calls' = calls)

\* C7: when the credential check reports invalid credentials, setup itself
\* raises ConfigEntryError, the coordinator is Failed (never Ready), and no
\* refresh cycle, hence no fetch, runs afterwards.
C7_InvalidCredentialsAreFatal == [] C7_State /\ [][C7_Step]_vars

\* the setup failed on invalid credentials and time went on afterwards
C7_Witness ==
    /\ InvalidCredentials
    /\ state = "Failed"
    /\ result.type = "ConfigEntryError"
    /\ now > 0

(***************************************************************************)
(* C8                                                                      *)
(***************************************************************************)
\* C8: a provider error raised by a remote call of a cycle (a fetch or the
\* session close) reaches the cycle's callers as UpdateFailed with the provider
\* error as its cause; no caller ever gets the raw provider error.
C8_ProviderErrorsAreWrapped ==
    /\ (CycleEnded /\ exc = "PySuezError") =>
          /\ result = Raised("UpdateFailed", "PySuezError")
          /\ \A c \in Callers : received[c] \in {NoResult, result}
    /\ CycleEnded =>
          /\ result.type # "PySuezError"
          /\ \A c \in Callers : received[c].type # "PySuezError"

\* the session close of a cycle raised the provider error
C8_Witness ==
    /\ CycleEnded
    /\ exc = "PySuezError"
    /\ calls = FixedOrder
    /\ Len(returned) = 4
    /\ received["sensor1"] = Raised("UpdateFailed", "PySuezError")

(***************************************************************************)
(* C9                                                                      *)
(***************************************************************************)
\* C9: every refresh cycle that starts ends, and the coordinator is then Ready
\* with no cycle running, so that the next tick can start a new cycle.
C9_CycleAlwaysReturnsToReady ==
    (state = "Refreshing") ~> (state = "Ready" /\ running = 0 /\ ENABLED timerTick)

\* a cycle started by the timer ended in a communication error; Ready again
C9_Witness ==
    /\ CycleEnded
    /\ received["timer"].type = "UpdateFailed"
    /\ state = "Ready"
    /\ ENABLED timerTick

(***************************************************************************)
(* C10                                                                     *)
(***************************************************************************)
\* C10: in every cycle the remote operations are invoked in the fixed order
\* consumption, index, price, alerts, each only after the one before answered;
\* so once the price fetch was invoked, consumption and index have answered.
C10_FixedFetchOrder ==
    (state = "Refreshing" \/ CycleEnded) =>
        /\ IsPrefix(calls, FixedOrder)
        /\ IsPrefix(OpsOf(returned), calls)
        /\ Len(calls) <= Len(returned) + 1
        /\ (\E i \in 1..Len(calls) : calls[i] = "get_price") =>
              /\ Answered("fetch_yesterday_data")
              /\ Answered("get_consumption_index")

\* the price fetch of a cycle is pending
C10_Witness ==
    /\ state = "Refreshing"
    /\ pc = "get_price"
    /\ _last_day # pre.consumption_last_day

(***************************************************************************)
(* C11                                                                     *)
(***************************************************************************)
\* the current/last coroutine invoked op
Invoked(op) == \E i \in 1..Len(calls) : calls[i] = op

\* the four fetches of a cycle
Fetches == {"fetch_yesterday_data", "get_consumption_index", "get_price", "get_alerts"}

\* C11: in a cycle the session close is invoked exactly when all four fetches
\* answered: once, after the alerts fetch and before the cycle returns; in a
\* cycle where a fetch failed it is never invoked.
C11_SessionClosedOnSuccessPathOnly ==
    (state = "Refreshing" \/ CycleEnded) =>
        /\ Invoked("close_session") <=> (\A op \in Fetches : Answered(op))
        /\ Cardinality({i \in 1..Len(calls) : calls[i] = "close_session"}) <= 1
        /\ Invoked("close_session") =>
              /\ Len(calls) = 5
              /\ calls[5] = "close_session"
              /\ calls[4] = "get_alerts"
        /\ (CycleEnded /\ result.type = "return") => Answered("close_session")

\* the alerts fetch of a cycle failed and the cycle ended without a session close
C11_Witness ==
    /\ CycleEnded
    /\ exc = "PySuezError"
    /\ Len(returned) = 3
    /\ calls[Len(calls)] = "get_alerts"
    /\ ~ Invoked("close_session")

(***************************************************************************)
(* C12                                                                     *)
(***************************************************************************)
\* C12: setup releases the session of the credential check: whenever setup has
\* ended after check_credentials answered (valid or invalid), close_session has
\* been invoked.
C12_SetupReleasesSession ==
    (SetupEnded /\ Answered("check_credentials")) => Invoked("close_session")

(***************************************************************************)
(* C13                                                                     *)
(***************************************************************************)
\* what the coordinator keeps of the answer v of operation op
Stored(op, v) ==
    IF op = "get_price" /\ v # None THEN Float(v.price) ELSE v

\* the field that holds the answer of a fetch
FieldOf(op, snap) ==
    CASE op = "fetch_yesterday_data" -> snap.consumption_last_day
      [] op = "get_consumption_index" -> snap.index
      [] op = "get_price" -> snap.price
      [] op = "get_alerts" -> snap.alerts

\* the answers that mean "no data": None, and the empty alert collection
NoData == {None, [tag |-> "AlertResult", raised |-> {}]}

\* C13: a "no data" answer is a success: a fetch that answered None (an empty
\* collection, for the alerts) leaves its field absent (empty), raises nothing,
\* and the cycle goes on to its next step; a cycle in which nothing raised and
\* no deadline passed completes successfully.
C13_NoDataIsNotAnError ==
    /\ (state = "Refreshing" \/ CycleEnded) =>
          \A i \in 1..4 :
              (Answered(FixedOrder[i]) /\ AnswerOf(FixedOrder[i]) \in NoData)
                  => /\ FieldOf(FixedOrder[i], Snapshot) = AnswerOf(FixedOrder[i])
                     /\ Len(calls) > i
    /\ state = "Refreshing" => (exc = "None" /\ result = NoResult)
    /\ (CycleEnded /\ exc = "None") => (result.type = "return" /\ Len(returned) = 5)
    /\ (CycleEnded /\ result.type # "return") => exc \in {"PySuezError", "TimeoutError"}

\* a cycle in which every fetch had no data completed successfully and emptied
\* fields that were populated
C13_Witness ==
    /\ CycleEnded
    /\ result.type = "return"
    /\ \A op \in Fetches \ {"get_alerts"} : AnswerOf(op) = None
    /\ AnswerOf("get_alerts").raised = {}
    /\ pre.consumption_last_day # None /\ pre.index # None /\ pre.price # None
    /\ _last_day = None /\ index = None /\ _price = None

(***************************************************************************)
(* C15                                                                     *)
(***************************************************************************)
C15_State ==
    (state = "Refreshing" \/ CycleEnded) =>
        /\ \A op \in Fetches : Cardinality({i \in 1..Len(calls) : calls[i] = op}) <= 1
        /\ (CycleEnded /\ exc # "None") =>
              /\ Len(calls) = Len(returned) + 1
              /\ ~ Answered(calls[Len(calls)])

C15_Step ==
    CycleEnded =>
        \/ calls' = calls
        \/ /\ state' = "Refreshing"
           /\ returned' = << >>
           /\ Len(calls') = 1

\* C15: no retry within a cycle: each fetch is invoked at most once per cycle,
\* the operation that failed is the last one the cycle invoked, and further
\* fetches happen only once a later tick or request has started a new cycle.
C15_NoRetryWithinCycle == [] C15_State /\ [][C15_Step]_vars

\* the index fetch failed: the cycle ended with two operations invoked
C15_Witness ==
    /\ CycleEnded
    /\ exc = "PySuezError"
    /\ calls = << "fetch_yesterday_data", "get_consumption_index" >>
    /\ Len(returned) = 1

(***************************************************************************)
(* C17                                                                     *)
(***************************************************************************)
\* C17: prefix update: in a cycle whose first k-1 steps answered, the fields of
\* those steps hold what this cycle fetched and the fields of step k and later
\* hold their values from before the cycle.
C17_PrefixUpdate ==
    (state = "Refreshing" \/ CycleEnded) =>
        \A i \in 1..4 :
            IF i <= Len(returned)
              THEN /\ Answered(FixedOrder[i])
                   /\ FieldOf(FixedOrder[i], Snapshot)
                        = Stored(FixedOrder[i], AnswerOf(FixedOrder[i]))
              ELSE FieldOf(FixedOrder[i], Snapshot) = FieldOf(FixedOrder[i], pre)

\* the price fetch failed: consumption and index are new, price and alerts old
C17_Witness ==
    /\ CycleEnded
    /\ exc = "PySuezError"
    /\ Len(returned) = 2
    /\ _last_day # pre.consumption_last_day
    /\ index # pre.index
    /\ _price = pre.price /\ _price # None
    /\ alerts = pre.alerts /\ alerts # None

(***************************************************************************)
(* C14                                                                     *)
(***************************************************************************)
\* no refresh cycle has started yet
BeforeFirstCycle == ~ (state = "Refreshing" \/ CycleEnded)

C14_State ==
    observed # NoView =>
        /\ observed.consumption_last_day = _last_day
        /\ observed.price = _price
        /\ observed.index = index
        /\ observed.alerts = alerts
        /\ observed.attribution = Str("attribution")
        /\ BeforeFirstCycle =>
              \A f \in DOMAIN observed \ {"tag", "attribution"} : observed[f] = None

C14_Step ==
    observed' # NoView =>
        /\ UNCHANGED coordinator
        /\ UNCHANGED aggregated

\* C14: the read accessors and the sensors' value computations trigger no fetch
\* and change nothing of the coordinator; they return the current fields, and
\* before the first cycle everything they return is absent.
C14_ReadersChangeNothing == [] C14_State /\ [][C14_Step]_vars

\* a reader ran while the price fetch of a cycle was pending
C14_Witness ==
    /\ observed # NoView
    /\ state = "Refreshing"
    /\ pc = "get_price"
    /\ observed.consumption_last_day # None
    /\ observed.price = None

(***************************************************************************)
(* C16                                                                     *)
(***************************************************************************)
\* C16: in every state of the coordinator each sensor yields None, without
\* raising, when its field is absent, and otherwise the projection of its field:
\* day_consumption with the record's date as attribute, the cumulative index,
\* the price.
C16_SensorsProjectTheirField ==
    observed # NoView =>
        /\ observed.water_usage_last_day =
              IF _last_day = None THEN None ELSE Float(_last_day.day_consumption)
        /\ observed.water_usage_last_day_attributes =
              IF _last_day = None THEN None ELSE Dict([date |-> _last_day.date])
        /\ observed.water_usage_forever_total =
              IF index = None THEN None ELSE Float(index.content.index)
        /\ observed.price_sensor = _price
        /\ \A f \in DOMAIN observed \ {"tag"} : observed[f].tag # "AttributeError"

\* the sensors were read after a failed cycle that left a consumption record
\* and no index
C16_Witness ==
    /\ observed # NoView
    /\ CycleEnded
    /\ exc = "PySuezError"
    /\ index = None
    /\ observed.water_usage_forever_total = None
    /\ observed.water_usage_last_day = Float(120)
    /\ observed.water_usage_last_day_attributes = Dict([date |-> 1])
    /\ observed.price_sensor = Float(3)

(***************************************************************************)
(* C18                                                                     *)
(***************************************************************************)
C18_State ==
    /\ updated = "PySuezError" =>
          /\ _attr_available = FALSE
          /\ _attr_native_value = last_ok.native_value
          /\ _attr_extra_state_attributes = last_ok.extra_state_attributes
    /\ updated = "ok" =>
          /\ _attr_available = TRUE
          /\ _attr_native_value = client.state

C18_Step ==
    (aggregated' # aggregated) => UNCHANGED coordinator

\* C18: after an update() of the aggregated sensor in which the client raised a
\* provider error the sensor is unavailable and its native value and extra
\* attributes are those of the last successful update; after one in which the
\* client succeeded it is available and its native value is the client's state;
\* no update changes anything of the coordinator or starts a cycle.
C18_LegacySensorKeepsLastGoodValue == [] C18_State /\ [][C18_Step]_vars

\* an update failed after a successful one, with the client left holding other
\* data, while a cycle of the coordinator was running
C18_Witness ==
    /\ updated = "PySuezError"
    /\ _attr_available = FALSE
    /\ _attr_native_value = Float(201)
    /\ client.state = Float(202)
    /\ state = "Refreshing"
    /\ pc = "get_price"

=============================================================================
